---- MODULE Spec2Model ----
(***************************************************************************)
(* guardiansScheduler: preference resolution (getShiftPreferences) and     *)
(* decision-variable enumeration (schedule) of src/scheduler.py.           *)
(***************************************************************************)
EXTENDS Integers, Sequences, FiniteSets, TLC

VARIABLES
    shiftConfs,        \* the list read from SHIFT_CONF_FILE / the shiftConfs argument
    calendarDict,      \* the dict read from CALENDAR_FILE
    dayConfs,          \* schedule's sorted dayConfs / the dayConfs argument
    daysOfMonth,       \* the list of datetime.date of the month
    keys,              \* the keys argument of the running getShiftPreferences call
    shifts1ByWeekDay,  \* weekday buckets of keys[0]
    shifts2ByWeekDay,  \* weekday buckets of keys[1]
    shiftPreferences,  \* the table getShiftPreferences builds (day number -> pair)
    warnings,          \* what log.warn has emitted, in order
    requests,          \* schedule's local: <<>> while unassigned, <<table>> once assigned
    required,          \* schedule's local: <<>> while unassigned, <<table>> once assigned
    model,             \* the names given to cp_model.CpModel.NewBoolVar, in call order
    shiftVars,         \* schedule's shiftVars dict: <<docId, dayNum>> -> list of BoolVars
    call,              \* 0: getShiftPreferences called on its own; 1, 2: schedule's calls
    pc,                \* the position in the code
    error              \* the exception that ended the run and where it was raised

vars == <<shiftConfs, calendarDict, dayConfs, daysOfMonth, keys, shifts1ByWeekDay,
          shifts2ByWeekDay, shiftPreferences, warnings, requests, required, model,
          shiftVars, call, pc, error>>

----------------------------------------------------------------------------
(* Bounds of the inputs *)

\* the staff ids are 1..MaxDoctors, one shift configuration each
MaxDoctors == 2
\* getShiftPreferences on its own: weekday entries plus day-level override
\* entries in the whole input
MaxEntries == 2
\* schedule: weekday entries plus day-level override entries in the whole input
SchedMaxEntries == 1

DoctorIds == 1..MaxDoctors
\* the (year, month) pairs a calendar file may name
InputMonths == {<<2019, 4>>}
\* the weekday names a shift configuration may hold ("Funday" is no weekday)
PrefNames == {"Monday", "Funday"}
\* the days of the month whose configuration may list staff ids
OverrideDays == {1}

----------------------------------------------------------------------------
(* Module constants of scheduler.py *)

WEEK_DAY ==
    [Monday |-> 0, Tuesday |-> 1, Wednesday |-> 2, Thursday |-> 3,
     Friday |-> 4, Saturday |-> 5, Sunday |-> 6]

DAY_NUM_TO_WEEK_DAY ==
    [dayNum \in 0..6 |-> CHOOSE weekdayName \in DOMAIN WEEK_DAY :
                             WEEK_DAY[weekdayName] = dayNum]

SHIFT == "s"
CONSULT == "c"

RequestKeys == <<"wantedShifts", "unwantedShifts">>
RequiredKeys == <<"mandatoryShifts", "unavailableShifts">>

----------------------------------------------------------------------------
(* Python built-ins the code relies on *)

Range(s) == {s[i] : i \in 1..Len(s)}

Min(a, b) == IF a <= b THEN a ELSE b

\* Python evaluates an argument before the call it is passed to: TRUE, and v has
\* been evaluated once this has been
Evaluated(v) == v = v

\* list(set(...)) of small ints: CPython iterates them in ascending order
RECURSIVE SetToList(_)
SetToList(S) ==
    IF S = {} THEN <<>>
    ELSE LET m == CHOOSE x \in S : \A y \in S : x <= y
         IN  <<m>> \o SetToList(S \ {m})

\* str.format(*args) with no keyword argument: a field is "" when it is the
\* auto-numbered {} and its name otherwise; a named field raises KeyError and
\* so does an auto-numbered field past the last argument
StrFormatRaises(fields, nargs) ==
    \/ \E i \in 1..Len(fields) : fields[i] # ""
    \/ Cardinality({i \in 1..Len(fields) : fields[i] = ""}) > nargs

\* calendar / datetime: proleptic Gregorian arithmetic of date.toordinal
IsLeap(y) == y % 4 = 0 /\ (y % 100 # 0 \/ y % 400 = 0)

DaysInMonth(y, m) ==
    IF m = 2 THEN (IF IsLeap(y) THEN 29 ELSE 28)
    ELSE IF m \in {4, 6, 9, 11} THEN 30 ELSE 31

DaysBeforeYear(y) ==
    (y - 1) * 365 + (y - 1) \div 4 - (y - 1) \div 100 + (y - 1) \div 400

RECURSIVE DaysBeforeMonth(_, _)
DaysBeforeMonth(y, m) ==
    IF m = 1 THEN 0 ELSE DaysBeforeMonth(y, m - 1) + DaysInMonth(y, m - 1)

ToOrdinal(date) ==
    DaysBeforeYear(date.year) + DaysBeforeMonth(date.year, date.month) + date.day

\* date.weekday(): Monday is 0
Weekday(date) == (ToOrdinal(date) + 6) % 7

\* [day for day in calendar.itermonthdates(year, month) if day.month == month]
DaysOfMonth(y, m) ==
    [d \in 1..DaysInMonth(y, m) |-> [year |-> y, month |-> m, day |-> d]]

\* sorted(..., key=lambda day: day['day']) is a stable sort by day number: each
\* element in turn goes after the elements already placed whose day number is
\* not larger
InsertByDay(sorted, conf) ==
    SelectSeq(sorted, LAMBDA c : c.day <= conf.day)
    \o <<conf>>
    \o SelectSeq(sorted, LAMBDA c : c.day > conf.day)

\* confs[lo..hi] inserted, in order, into sorted
RECURSIVE InsertAllByDay(_, _, _, _)
InsertAllByDay(sorted, confs, lo, hi) ==
    IF lo > hi \/ ~Evaluated(sorted) THEN sorted
    ELSE IF lo = hi THEN InsertByDay(sorted, confs[lo])
    ELSE InsertAllByDay(InsertAllByDay(sorted, confs, lo, (lo + hi) \div 2),
                        confs, (lo + hi) \div 2 + 1, hi)

SortByDay(confs) == InsertAllByDay(<<>>, confs, 1, Len(confs))

----------------------------------------------------------------------------
(* getShiftPreferences: the weekday buckets (lines 215-224) *)

\* WEEK_DAY[...['shift']] raises KeyError on a name that is no key of WEEK_DAY
UnknownWeekday(confs, key1, key2) ==
    \E c \in 1..Len(confs) : \E key \in {key1, key2} :
        \E j \in 1..Len(confs[c][key]) : confs[c][key][j].shift \notin DOMAIN WEEK_DAY

\* for shiftNByWeekDay in shiftConf[key]: shiftsNByWeekDay[weekday].append(docId)
RECURSIVE AppendShifts(_, _, _)
AppendShifts(byWeekDay, docId, shifts) ==
    IF shifts = <<>> THEN byWeekDay
    ELSE LET weekday == WEEK_DAY[Head(shifts).shift]
         IN  AppendShifts([byWeekDay EXCEPT ![weekday] = Append(@, docId)],
                          docId, Tail(shifts))

\* for shiftConf in shiftConfs: ... , for one of the two keys
RECURSIVE ShiftsByWeekDay(_, _)
ShiftsByWeekDay(confs, key) ==
    IF confs = <<>> THEN [i \in 0..6 |-> <<>>]
    ELSE LET last == confs[Len(confs)]
         IN  AppendShifts(ShiftsByWeekDay(SubSeq(confs, 1, Len(confs) - 1), key),
                          last.doctorId, last[key])

----------------------------------------------------------------------------
(* getShiftPreferences: the weekday conflict check (lines 227-232) *)

WeekdayConflictFields == <<"", "", "", "">>

\* intersection = set(shifts1ByWeekDay[i]) & set(shifts2ByWeekDay[i])
WeekdayIntersection(by1, by2, i) == Range(by1[i]) \cap Range(by2[i])

\* the log.warn calls of the loop over range(7), in order
RECURSIVE WeekdayWarnings(_, _, _, _)
WeekdayWarnings(by1, by2, ks, i) ==
    IF i > 6 THEN <<>>
    ELSE (IF WeekdayIntersection(by1, by2, i) # {}
          THEN <<[scope |-> "weekday", at |-> i,
                  name |-> DAY_NUM_TO_WEEK_DAY[i],
                  ids |-> WeekdayIntersection(by1, by2, i), keys |-> ks]>>
          ELSE <<>>)
         \o WeekdayWarnings(by1, by2, ks, i + 1)

----------------------------------------------------------------------------
(* getShiftPreferences: one day of the loop over zip(daysOfMonth, dayConfs),
   lines 235-275 *)

DayConflictFields == <<"intersection", "", "", "">>

\* [doctor['id'] for doctor in dayConf[key]]
HighPriority(dayConf, key) ==
    [j \in 1..Len(dayConf[key]) |-> dayConf[key][j].id]

\* set(shifts1HighPriority) & set(shifts2HighPriority)
DayIntersection(high1, high2) == Range(high1) \cap Range(high2)

InList(x, list) == \E j \in 1..Len(list) : list[j] = x

\* the comprehension without its condition
FilteredNothing(byWeekDay, highOther) == byWeekDay

\* [docId for docId in shiftsNByWeekDay[weekday] if docId not in highOther]
Filtered(byWeekDay, highOther) ==
    SelectSeq(byWeekDay, LAMBDA docId : ~ InList(docId, highOther))

\* the two lists added instead of united as sets
CombinedAppend(filtered, high) == filtered \o high

\* the day's own list left out of the union
CombinedWeekdayOnly(filtered, high) == SetToList(Range(filtered))

\* list(set(shiftsNFiltered) | set(shiftsNHighPriority))
Combined(filtered, high) == SetToList(Range(filtered) \cup Range(high))

\* the pair stored under day.day
DayPreferences(by1, by2, day, dayConf, ks) ==
    LET weekday == Weekday(day)
        high1 == HighPriority(dayConf, ks[1])
        high2 == HighPriority(dayConf, ks[2])
    IN  <<Combined(Filtered(by1[weekday], high2), high1),
          Combined(Filtered(by2[weekday], high1), high2)>>

\* the day-level log.warn of lines 250-254 is reached and its format call raises
DayWarnRaises(dayConf, ks) ==
    /\ DayIntersection(HighPriority(dayConf, ks[1]), HighPriority(dayConf, ks[2])) # {}
    /\ StrFormatRaises(DayConflictFields, 4)

\* one iteration of the loop, on the i-th pair of zip(daysOfMonth, dayConfs): st
\* holds the table so far, the day-level warnings emitted so far, and the
\* iteration that raised (0 when none did)
DayStep(by1, by2, days, confs, ks, i, st) ==
    IF DayWarnRaises(confs[i], ks)
    THEN [st EXCEPT !.raisedAt = i]
    ELSE [table |-> (days[i].day :> DayPreferences(by1, by2, days[i], confs[i], ks))
                        @@ st.table,
          warned |->
              IF DayIntersection(HighPriority(confs[i], ks[1]),
                                 HighPriority(confs[i], ks[2])) # {}
              THEN Append(st.warned,
                     [scope |-> "day", at |-> days[i].day, name |-> "",
                      ids |-> DayIntersection(HighPriority(confs[i], ks[1]),
                                              HighPriority(confs[i], ks[2])),
                      keys |-> ks])
              ELSE st.warned,
          raisedAt |-> 0]

\* the iterations lo..hi in order, none of them run once one has raised
RECURSIVE DayLoop(_, _, _, _, _, _, _, _)
DayLoop(by1, by2, days, confs, ks, lo, hi, st) ==
    IF st.raisedAt # 0 \/ lo > hi THEN st
    ELSE IF lo = hi THEN DayStep(by1, by2, days, confs, ks, lo, st)
    ELSE DayLoop(by1, by2, days, confs, ks, (lo + hi) \div 2 + 1, hi,
                 DayLoop(by1, by2, days, confs, ks, lo, (lo + hi) \div 2, st))

----------------------------------------------------------------------------
(* schedule: calendar validation (lines 297-328) *)

\* the count check alone, without the loop that compares the day numbers
CalendarRaisesCountOnly(days, confs) == Len(days) # Len(confs)

\* the two checks that raise ValueError: the count, then day.day != dayConf['day']
\* over zip(daysOfMonth, dayConfs)
CalendarRaises(days, confs) ==
    \/ Len(days) # Len(confs)
    \/ \E i \in 1..Min(Len(days), Len(confs)) : days[i].day # confs[i].day

----------------------------------------------------------------------------
(* schedule: the BoolVars (lines 355-370) *)

\* both names of a doctor's day ending in SHIFT
VarNameNoKind(docId, dayNum, kind) ==
    "shift_doc" \o ToString(docId) \o "_day" \o ToString(dayNum) \o "_" \o SHIFT

\* f'shift_doc{docId}_day{dayNum}_{kind}'
VarName(docId, dayNum, kind) ==
    "shift_doc" \o ToString(docId) \o "_day" \o ToString(dayNum) \o "_" \o kind

\* model.NewBoolVar(name): the variable is the next one of the model
NewBoolVar(m, name) == [index |-> Len(m) + 1, name |-> name]

\* the loop body without its if
WorkingDayAlways(dayConf) == TRUE

\* if dayConf['isWorkingDay']
WorkingDay(dayConf) == dayConf.isWorkingDay

\* the names the body of the inner loop gives to model.NewBoolVar, in order
DoctorVarNames(shiftConf, dayConf) ==
    <<VarName(shiftConf.doctorId, dayConf.day, SHIFT)>>
    \o (IF shiftConf.doesConsultations
        THEN <<VarName(shiftConf.doctorId, dayConf.day, CONSULT)>>
        ELSE <<>>)

\* doctorVars of one (shiftConf, dayConf), the model holding m before it
DoctorVars(m, shiftConf, dayConf) ==
    LET names == DoctorVarNames(shiftConf, dayConf)
    IN  [j \in 1..Len(names) |-> NewBoolVar(m \o SubSeq(names, 1, j - 1), names[j])]

\* the body of the inner loop: st holds the model's names and shiftVars so far
ShiftVarsStep(shiftConf, dayConf, st) ==
    IF WorkingDay(dayConf)
    THEN [model |-> st.model \o DoctorVarNames(shiftConf, dayConf),
          shiftVars |-> (<<shiftConf.doctorId, dayConf.day>>
                             :> DoctorVars(st.model, shiftConf, dayConf))
                        @@ st.shiftVars]
    ELSE st

\* for dayConf in dayConfs: the iterations lo..hi in order
RECURSIVE DayConfsLoop(_, _, _, _, _)
DayConfsLoop(shiftConf, days, lo, hi, st) ==
    IF lo > hi \/ ~Evaluated(st) THEN st
    ELSE IF lo = hi THEN ShiftVarsStep(shiftConf, days[lo], st)
    ELSE DayConfsLoop(shiftConf, days, (lo + hi) \div 2 + 1, hi,
                      DayConfsLoop(shiftConf, days, lo, (lo + hi) \div 2, st))

\* for shiftConf in shiftConfs: the iterations from the c-th on
RECURSIVE ShiftVarsLoop(_, _, _, _)
ShiftVarsLoop(confs, days, c, st) ==
    IF c > Len(confs) \/ ~Evaluated(st) THEN st
    ELSE ShiftVarsLoop(confs, days, c + 1,
                       DayConfsLoop(confs[c], days, 1, Len(days), st))

----------------------------------------------------------------------------
(* The inputs: the JSON files of schedule, the arguments of getShiftPreferences *)

Categories == {"wantedShifts", "unwantedShifts", "mandatoryShifts", "unavailableShifts"}

\* one {'shift': name} of a doctor's list, or one {'id': doctor} of a day's list,
\* is a record [layer, who, key, shift, day]

RECURSIVE AsList(_)
AsList(S) ==
    IF S = {} THEN <<>> ELSE LET x == CHOOSE y \in S : TRUE IN <<x>> \o AsList(S \ {x})

\* the entry kinds in a fixed order: by doctor, then key, then name or day
EntryKindList ==
    LET ds == AsList(DoctorIds)
        cs == AsList(Categories)
        ns == AsList(PrefNames)
        os == AsList(OverrideDays)
    IN  [n \in 1..(Len(ds) * Len(cs) * Len(ns)) |->
            [layer |-> "weekly",
             who |-> ds[(n - 1) \div (Len(cs) * Len(ns)) + 1],
             key |-> cs[(((n - 1) \div Len(ns)) % Len(cs)) + 1],
             shift |-> ns[((n - 1) % Len(ns)) + 1],
             day |-> 0]]
        \o
        [n \in 1..(Len(ds) * Len(cs) * Len(os)) |->
            [layer |-> "day",
             who |-> ds[(n - 1) \div (Len(cs) * Len(os)) + 1],
             key |-> cs[(((n - 1) \div Len(os)) % Len(cs)) + 1],
             shift |-> "",
             day |-> os[((n - 1) % Len(os)) + 1]]]

NonDecreasing(n, m) ==
    {s \in [1..n -> 1..m] : \A i \in 1..(n - 1) : s[i] <= s[i + 1]}

\* the lists of at most max entries of the given keys, in the fixed order
EntryLists(cats, max) ==
    LET kinds == SelectSeq(EntryKindList, LAMBDA e : e.key \in cats)
    IN  UNION {{[i \in 1..n |-> kinds[s[i]]] : s \in NonDecreasing(n, Len(kinds))} :
                  n \in 0..max}

ScheduleEntryLists == EntryLists(Categories, SchedMaxEntries)

RequestEntryLists == EntryLists(Range(RequestKeys), MaxEntries)

RequiredEntryLists == EntryLists(Range(RequiredKeys), MaxEntries)

WeeklyList(entries, d, k) ==
    LET sel == SelectSeq(entries,
                   LAMBDA e : e.layer = "weekly" /\ e.who = d /\ e.key = k)
    IN  [j \in 1..Len(sel) |-> [shift |-> sel[j].shift]]

DayList(entries, dd, k) ==
    LET sel == SelectSeq(entries,
                   LAMBDA e : e.layer = "day" /\ e.day = dd /\ e.key = k)
    IN  [j \in 1..Len(sel) |-> [id |-> sel[j].who]]

ShiftConfOf(entries, d, consults) ==
    [doctorId |-> d, doesConsultations |-> consults,
     wantedShifts |-> WeeklyList(entries, d, "wantedShifts"),
     unwantedShifts |-> WeeklyList(entries, d, "unwantedShifts"),
     mandatoryShifts |-> WeeklyList(entries, d, "mandatoryShifts"),
     unavailableShifts |-> WeeklyList(entries, d, "unavailableShifts")]

\* a day outside OverrideDays lists nobody
DayConfOf(entries, dd, working) ==
    IF dd \in OverrideDays
    THEN [day |-> dd, isWorkingDay |-> working,
          wantedShifts |-> DayList(entries, dd, "wantedShifts"),
          unwantedShifts |-> DayList(entries, dd, "unwantedShifts"),
          mandatoryShifts |-> DayList(entries, dd, "mandatoryShifts"),
          unavailableShifts |-> DayList(entries, dd, "unavailableShifts")]
    ELSE [day |-> dd, isWorkingDay |-> working,
          wantedShifts |-> <<>>, unwantedShifts |-> <<>>,
          mandatoryShifts |-> <<>>, unavailableShifts |-> <<>>]

\* the isWorkingDay a calendar file gives day dd: five days out of seven
IsWorkingInput(dd) == dd % 7 \notin {6, 0}

\* the day numbers of a calendar file, in file order, for a month of n days:
\* the month as it is, in descending order, one day short, one day long, with
\* day 1 twice and no day 2, with day n + 1 in place of day n
DayNumberLists(n) ==
    LET asc == [i \in 1..n |-> i]
    IN  {asc, [i \in 1..n |-> n + 1 - i], SubSeq(asc, 1, n - 1), Append(asc, n + 1),
         [asc EXCEPT ![2] = 1], [asc EXCEPT ![n] = n + 1]}

NoError == [type |-> "", where |-> "", day |-> 0]

\* the state before the first statement of schedule()
Init ==
    \E ym \in InputMonths, entries \in ScheduleEntryLists,
       consults \in [DoctorIds -> BOOLEAN] :
        \E nums \in DayNumberLists(DaysInMonth(ym[1], ym[2])) :
            /\ shiftConfs = [d \in DoctorIds |-> ShiftConfOf(entries, d, consults[d])]
            /\ calendarDict =
                 [year |-> ym[1], month |-> ym[2],
                  dayConfigurations |->
                      [i \in 1..Len(nums) |->
                          DayConfOf(entries, nums[i], IsWorkingInput(nums[i]))]]
            /\ dayConfs = <<>>
            /\ daysOfMonth = <<>>
            /\ keys = <<>>
            /\ shifts1ByWeekDay = <<>>
            /\ shifts2ByWeekDay = <<>>
            /\ shiftPreferences = <<>>
            /\ warnings = <<>>
            /\ requests = <<>>
            /\ required = <<>>
            /\ model = <<>>
            /\ shiftVars = <<>>
            /\ call = 1
            /\ pc = "start"
            /\ error = NoError

\* the state at the call of getShiftPreferences(shiftConfs=, dayConfs=, keys=,
\* daysOfMonth=) by a caller other than schedule
InitPreferences ==
    \E ym \in InputMonths, ks \in {RequestKeys, RequiredKeys} :
        \E entries \in (IF ks = RequestKeys THEN RequestEntryLists
                       ELSE RequiredEntryLists),
           n \in {DaysInMonth(ym[1], ym[2]) - 1, DaysInMonth(ym[1], ym[2]),
                  DaysInMonth(ym[1], ym[2]) + 1} :
            /\ shiftConfs = [d \in DoctorIds |-> ShiftConfOf(entries, d, FALSE)]
            /\ calendarDict = [year |-> ym[1], month |-> ym[2], dayConfigurations |-> <<>>]
            /\ dayConfs = [i \in 1..n |->
                              DayConfOf(entries, i, IsWorkingInput(i))]
            /\ daysOfMonth = DaysOfMonth(ym[1], ym[2])
            /\ keys = ks
            /\ shifts1ByWeekDay = <<>>
            /\ shifts2ByWeekDay = <<>>
            /\ shiftPreferences = <<>>
            /\ warnings = <<>>
            /\ requests = <<>>
            /\ required = <<>>
            /\ model = <<>>
            /\ shiftVars = <<>>
            /\ call = 0
            /\ pc = "aggregate"
            /\ error = NoError

----------------------------------------------------------------------------
(* The steps of getShiftPreferences *)

Raise(type, where, day) ==
    /\ pc' = "raised"
    /\ error' = [type |-> type, where |-> where, day |-> day]

\* lines 215-224: the buckets, or KeyError from WEEK_DAY[...]
AggregateWeekdays ==
    /\ pc = "aggregate"
    /\ IF UnknownWeekday(shiftConfs, keys[1], keys[2])
       THEN /\ Raise("KeyError", "WEEK_DAY", 0)
            /\ UNCHANGED <<shifts1ByWeekDay, shifts2ByWeekDay>>
       ELSE /\ shifts1ByWeekDay' = ShiftsByWeekDay(shiftConfs, keys[1])
            /\ shifts2ByWeekDay' = ShiftsByWeekDay(shiftConfs, keys[2])
            /\ pc' = "conflicts"
            /\ UNCHANGED error
    /\ UNCHANGED <<shiftConfs, calendarDict, dayConfs, daysOfMonth, keys,
                   shiftPreferences, warnings, requests, required, model, shiftVars,
                   call>>

\* the conflict check that also drops the ids it reports from both buckets
CheckWeekdayConflictsExcluding ==
    /\ pc = "conflicts"
    /\ warnings' = warnings
                    \o WeekdayWarnings(shifts1ByWeekDay, shifts2ByWeekDay, keys, 0)
    /\ shifts1ByWeekDay' =
           [i \in 0..6 |->
               SelectSeq(shifts1ByWeekDay[i],
                   LAMBDA d : d \notin WeekdayIntersection(shifts1ByWeekDay,
                                                           shifts2ByWeekDay, i))]
    /\ shifts2ByWeekDay' =
           [i \in 0..6 |->
               SelectSeq(shifts2ByWeekDay[i],
                   LAMBDA d : d \notin WeekdayIntersection(shifts1ByWeekDay,
                                                           shifts2ByWeekDay, i))]
    /\ pc' = "days"
    /\ UNCHANGED <<shiftConfs, calendarDict, dayConfs, daysOfMonth, keys,
                   shiftPreferences, requests, required, model, shiftVars, call,
                   error>>

\* lines 227-232: one log.warn per weekday whose two buckets intersect
CheckWeekdayConflicts ==
    /\ pc = "conflicts"
    /\ LET warned == WeekdayWarnings(shifts1ByWeekDay, shifts2ByWeekDay, keys, 0)
       IN  IF warned # <<>> /\ StrFormatRaises(WeekdayConflictFields, 4)
           THEN /\ Raise("KeyError", "weekday warning", 0)
                /\ UNCHANGED warnings
           ELSE /\ warnings' = warnings \o warned
                /\ pc' = "days"
                /\ UNCHANGED error
    /\ UNCHANGED <<shiftConfs, calendarDict, dayConfs, daysOfMonth, keys,
                   shifts1ByWeekDay, shifts2ByWeekDay, shiftPreferences, requests,
                   required, model, shiftVars, call>>

\* lines 234-275: the loop over the days, to its end or to the iteration that raises
ResolveDays ==
    /\ pc = "days"
    /\ \E r \in {DayLoop(shifts1ByWeekDay, shifts2ByWeekDay, daysOfMonth, dayConfs,
                        keys, 1, Min(Len(daysOfMonth), Len(dayConfs)),
                        [table |-> <<>>, warned |-> <<>>, raisedAt |-> 0])} :
           /\ shiftPreferences' = r.table
           /\ warnings' = warnings \o r.warned
           /\ IF r.raisedAt # 0
              THEN Raise("KeyError", "day warning", daysOfMonth[r.raisedAt].day)
              ELSE pc' = "return" /\ UNCHANGED error
    /\ UNCHANGED <<shiftConfs, calendarDict, dayConfs, daysOfMonth, keys,
                   shifts1ByWeekDay, shifts2ByWeekDay, requests, required, model,
                   shiftVars, call>>

\* line 279, the caller not being schedule
ReturnPreferences ==
    /\ pc = "return"
    /\ call = 0
    /\ pc' = "returned"
    /\ UNCHANGED <<shiftConfs, calendarDict, dayConfs, daysOfMonth, keys,
                   shifts1ByWeekDay, shifts2ByWeekDay, shiftPreferences, warnings,
                   requests, required, model, shiftVars, call, error>>

----------------------------------------------------------------------------
(* The steps of schedule *)

\* lines 293-331: sort, count the days, compare the day numbers, then call
\* getShiftPreferences with keys=('wantedShifts', 'unwantedShifts')
ValidateCalendar ==
    /\ pc = "start"
    /\ dayConfs' = SortByDay(calendarDict.dayConfigurations)
    /\ daysOfMonth' = DaysOfMonth(calendarDict.year, calendarDict.month)
    /\ IF CalendarRaises(daysOfMonth', dayConfs')
       THEN Raise("ValueError", "calendar", 0) /\ UNCHANGED keys
       ELSE pc' = "aggregate" /\ keys' = RequestKeys /\ UNCHANGED error
    /\ UNCHANGED <<shiftConfs, calendarDict, shifts1ByWeekDay, shifts2ByWeekDay,
                   shiftPreferences, warnings, requests, required, model, shiftVars,
                   call>>

\* lines 330-336: requests = the first call's table, then the second call, with
\* keys=('mandatoryShifts', 'unavailableShifts') and locals of its own
ReturnRequests ==
    /\ pc = "return"
    /\ call = 1
    /\ requests' = <<shiftPreferences>>
    /\ call' = 2
    /\ keys' = RequiredKeys
    /\ shifts1ByWeekDay' = <<>>
    /\ shifts2ByWeekDay' = <<>>
    /\ shiftPreferences' = <<>>
    /\ pc' = "aggregate"
    /\ UNCHANGED <<shiftConfs, calendarDict, dayConfs, daysOfMonth, warnings,
                   required, model, shiftVars, error>>

\* lines 334-339: required = the second call's table
ReturnRequired ==
    /\ pc = "return"
    /\ call = 2
    /\ required' = <<shiftPreferences>>
    /\ shifts1ByWeekDay' = <<>>
    /\ shifts2ByWeekDay' = <<>>
    /\ shiftPreferences' = <<>>
    /\ pc' = "enumerate"
    /\ UNCHANGED <<shiftConfs, calendarDict, dayConfs, daysOfMonth, keys, warnings,
                   requests, model, shiftVars, call, error>>

\* lines 355-370: shiftVars
EnumerateShiftVars ==
    /\ pc = "enumerate"
    /\ \E r \in {ShiftVarsLoop(shiftConfs, dayConfs, 1,
                              [model |-> <<>>, shiftVars |-> <<>>])} :
           model' = r.model /\ shiftVars' = r.shiftVars
    /\ pc' = "done"
    /\ UNCHANGED <<shiftConfs, calendarDict, dayConfs, daysOfMonth, keys,
                   shifts1ByWeekDay, shifts2ByWeekDay, shiftPreferences, warnings,
                   requests, required, call, error>>

Next ==
    \/ ValidateCalendar
    \/ AggregateWeekdays
    \/ CheckWeekdayConflicts
    \/ ResolveDays
    \/ ReturnRequests
    \/ ReturnRequired
    \/ EnumerateShiftVars

\* schedule()
Spec == Init /\ [][Next]_vars

NextPreferences ==
    \/ AggregateWeekdays
    \/ CheckWeekdayConflicts
    \/ ResolveDays
    \/ ReturnPreferences

\* getShiftPreferences(...) called on its own
SpecPreferences == InitPreferences /\ [][NextPreferences]_vars

----------------------------------------------------------------------------
(* What the inputs say, read off the input records *)

\* the staff ids whose recurring list `key` names the weekday w
WeeklyIds(key, w) ==
    {shiftConfs[c].doctorId : c \in
        {c \in 1..Len(shiftConfs) :
            \E j \in 1..Len(shiftConfs[c][key]) :
                /\ shiftConfs[c][key][j].shift \in DOMAIN WEEK_DAY
                /\ WEEK_DAY[shiftConfs[c][key][j].shift] = w}}

\* the staff ids of the override list `key` of the i-th day configuration
OverrideIds(i, key) == {dayConfs[i][key][j].id : j \in 1..Len(dayConfs[i][key])}

\* the positions zip(daysOfMonth, dayConfs) pairs up
ZippedDays == 1..Min(Len(daysOfMonth), Len(dayConfs))

DayNumbers == {daysOfMonth[i].day : i \in 1..Len(daysOfMonth)}

Stored(i) == daysOfMonth[i].day \in DOMAIN shiftPreferences

ResolvedPrimary(i) == Range(shiftPreferences[daysOfMonth[i].day][1])

ResolvedSecondary(i) == Range(shiftPreferences[daysOfMonth[i].day][2])

DayWarned(i) ==
    \E k \in 1..Len(warnings) :
        warnings[k].scope = "day" /\ warnings[k].at = daysOfMonth[i].day

WeekdayWarned(w) ==
    \E k \in 1..Len(warnings) : warnings[k].scope = "weekday" /\ warnings[k].at = w

\* the loop over the days has ended, by its last iteration or by an exception
DaysLoopEnded ==
    \/ pc \in {"return", "returned"}
    \/ pc = "raised" /\ error.where = "day warning"

\* the i-th day has been through the loop body, to its end or to an exception
DayProcessed(i) ==
    /\ DaysLoopEnded
    /\ Stored(i) \/ (pc = "raised" /\ error.day = daysOfMonth[i].day)

----------------------------------------------------------------------------
(* C1 *)

\* C1: override-wins filtering. For every day D (weekday W) with a stored pair
\* and every staff id X: X in the weekday-W primary bucket and in D's secondary
\* override list, and not in D's primary override list, is not in D's resolved
\* primary set; the same with primary and secondary swapped.
C1_OverrideWins ==
    \A i \in ZippedDays : Stored(i) =>
        \A X \in DoctorIds :
            /\ (/\ X \in WeeklyIds(keys[1], Weekday(daysOfMonth[i]))
                /\ X \in OverrideIds(i, keys[2])
                /\ X \notin OverrideIds(i, keys[1]))
               => X \notin ResolvedPrimary(i)
            /\ (/\ X \in WeeklyIds(keys[2], Weekday(daysOfMonth[i]))
                /\ X \in OverrideIds(i, keys[1])
                /\ X \notin OverrideIds(i, keys[2]))
               => X \notin ResolvedSecondary(i)

\* a stored day whose secondary override names an id of the weekday's primary bucket
C1_Witness ==
    \E i \in ZippedDays : \E X \in DoctorIds :
        /\ pc = "returned"
        /\ Stored(i)
        /\ X \in WeeklyIds(keys[1], Weekday(daysOfMonth[i]))
        /\ X \in OverrideIds(i, keys[2])
        /\ X \notin OverrideIds(i, keys[1])
        /\ X \notin ResolvedPrimary(i)
        /\ X \in ResolvedSecondary(i)

----------------------------------------------------------------------------
(* C2 *)

\* C2: for every day D (weekday W) the pair stored under D's day number is, as
\* sets, ((weekdayPrimary[W] \ secondaryOverride[D]) \cup primaryOverride[D],
\* (weekdaySecondary[W] \ primaryOverride[D]) \cup secondaryOverride[D]); so
\* every id of a day's own override list is in the resolved set of its category.
C2_ResolvedSets ==
    \A i \in ZippedDays : Stored(i) =>
        LET W == Weekday(daysOfMonth[i])
        IN  /\ ResolvedPrimary(i) =
                 (WeeklyIds(keys[1], W) \ OverrideIds(i, keys[2]))
                     \cup OverrideIds(i, keys[1])
            /\ ResolvedSecondary(i) =
                 (WeeklyIds(keys[2], W) \ OverrideIds(i, keys[1]))
                     \cup OverrideIds(i, keys[2])
            /\ OverrideIds(i, keys[1]) \subseteq ResolvedPrimary(i)
            /\ OverrideIds(i, keys[2]) \subseteq ResolvedSecondary(i)

\* a stored day whose primary set holds an override id the weekday bucket lacks
\* next to a weekday id the override list lacks
C2_Witness ==
    \E i \in ZippedDays :
        /\ pc = "returned"
        /\ Stored(i)
        /\ OverrideIds(i, keys[1]) \ WeeklyIds(keys[1], Weekday(daysOfMonth[i])) # {}
        /\ WeeklyIds(keys[1], Weekday(daysOfMonth[i])) \ OverrideIds(i, keys[1]) # {}
        /\ Cardinality(ResolvedPrimary(i)) >= 2

----------------------------------------------------------------------------
(* C6 *)

\* C6: a same-day contradiction is reported, not resolved by exclusion. Once the
\* loop over the days has ended it has not raised, and for every day D it went
\* through and every X in both override lists of D, a diagnostic for D was
\* emitted and X is in both resolved sets of D.
C6_SameDayConflictReported ==
    DaysLoopEnded =>
        /\ pc # "raised"
        /\ \A i \in ZippedDays : DayProcessed(i) =>
               \A X \in OverrideIds(i, keys[1]) \cap OverrideIds(i, keys[2]) :
                   /\ DayWarned(i)
                   /\ Stored(i)
                   /\ X \in ResolvedPrimary(i)
                   /\ X \in ResolvedSecondary(i)

----------------------------------------------------------------------------
(* C7 *)

\* C7: a weekday conflict is reported, not excluded. From the end of the
\* conflict check on, a diagnostic exists for weekday W exactly when some id is
\* under W in both recurring lists, and every such id is in both weekday
\* buckets of W (the buckets the loop over the days reads).
C7_WeekdayConflictReported ==
    (pc = "days" \/ DaysLoopEnded) =>
        \A w \in 0..6 :
            /\ WeekdayWarned(w) <=>
                   (WeeklyIds(keys[1], w) \cap WeeklyIds(keys[2], w) # {})
            /\ \A X \in WeeklyIds(keys[1], w) \cap WeeklyIds(keys[2], w) :
                   /\ X \in Range(shifts1ByWeekDay[w])
                   /\ X \in Range(shifts2ByWeekDay[w])
                   /\ \E k \in 1..Len(warnings) :
                          /\ warnings[k].scope = "weekday"
                          /\ warnings[k].at = w
                          /\ X \in warnings[k].ids

\* the loop over the days about to read buckets that share an id
C7_Witness ==
    /\ pc = "days"
    /\ \E w \in 0..6 :
           /\ WeeklyIds(keys[1], w) \cap WeeklyIds(keys[2], w) # {}
           /\ WeekdayWarned(w)
           /\ Range(shifts1ByWeekDay[w]) \cap Range(shifts2ByWeekDay[w]) # {}

----------------------------------------------------------------------------
(* C9 *)

DuplicateFree(list) == Cardinality(Range(list)) = Len(list)

TableShape ==
    /\ DOMAIN shiftPreferences = DayNumbers
    /\ \A D \in DOMAIN shiftPreferences :
           /\ Len(shiftPreferences[D]) = 2
           /\ DuplicateFree(shiftPreferences[D][1])
           /\ DuplicateFree(shiftPreferences[D][2])

\* C9 as stated: the table getShiftPreferences returns has one entry per day of
\* daysOfMonth, for every input list of day configurations, each entry a pair
\* of duplicate-free id lists.
C9_OneEntryPerDay == pc = "returned" => TableShape

\* C9 amended: the same, for every list of day configurations that is at least
\* as long as daysOfMonth.
C9_OneEntryPerDayGivenEnoughConfs ==
    (pc = "returned" /\ Len(dayConfs) >= Len(daysOfMonth)) => TableShape

\* a returned table with an id that is both a weekday and an override entry of
\* the same category
C9_Witness ==
    /\ pc = "returned"
    /\ Len(dayConfs) >= Len(daysOfMonth)
    /\ \E i \in ZippedDays :
           /\ WeeklyIds(keys[1], Weekday(daysOfMonth[i])) \cap OverrideIds(i, keys[1])
                  # {}
           /\ ResolvedPrimary(i) # {}

----------------------------------------------------------------------------
(* C10 *)

\* C10: for every day D (weekday W) the loop went through, X is in both resolved
\* sets of D if and only if X is in both override lists of D, or X is in both
\* weekday-W buckets and in neither override list of D.
C10_InBothSets ==
    \A i \in ZippedDays : DayProcessed(i) =>
        \A X \in DoctorIds :
            (Stored(i) /\ X \in ResolvedPrimary(i) /\ X \in ResolvedSecondary(i))
            <=>
            \/ X \in OverrideIds(i, keys[1]) \cap OverrideIds(i, keys[2])
            \/ /\ X \in WeeklyIds(keys[1], Weekday(daysOfMonth[i]))
                       \cap WeeklyIds(keys[2], Weekday(daysOfMonth[i]))
               /\ X \notin OverrideIds(i, keys[1]) \cup OverrideIds(i, keys[2])

----------------------------------------------------------------------------
(* C3 *)

\* the calendar file does not hold one day configuration per day of the month:
\* another count, or day numbers that are not exactly 1..N
CalendarShapeWrong ==
    LET confs == calendarDict.dayConfigurations
        N == DaysInMonth(calendarDict.year, calendarDict.month)
    IN  \/ Len(confs) # N
        \/ {confs[i].day : i \in 1..Len(confs)} # 1..N

\* neither call of getShiftPreferences nor the enumeration has started
NothingStarted ==
    /\ keys = <<>>
    /\ shifts1ByWeekDay = <<>>
    /\ shifts2ByWeekDay = <<>>
    /\ shiftPreferences = <<>>
    /\ warnings = <<>>
    /\ requests = <<>>
    /\ required = <<>>
    /\ model = <<>>
    /\ shiftVars = <<>>

\* C3: calendar-shape validation. With a wrong count of day configurations, or
\* day numbers that are not exactly 1..N, schedule raises ValueError, and
\* neither preference resolution nor variable enumeration has started: no
\* resolved table and no decision variable is ever produced on that run.
C3_CalendarShapeValidated ==
    CalendarShapeWrong =>
        /\ pc = "start" \/ (pc = "raised" /\ error.type = "ValueError")
        /\ NothingStarted

\* the right count of day configurations with the wrong day numbers, raised
C3_Witness ==
    /\ pc = "raised"
    /\ error.type = "ValueError"
    /\ Len(calendarDict.dayConfigurations)
           = DaysInMonth(calendarDict.year, calendarDict.month)
    /\ CalendarShapeWrong
    /\ NothingStarted

----------------------------------------------------------------------------
(* C4 *)

\* C4: variable cardinality. At the end of schedule, for every staff member s
\* and day configuration d: if d is a working day the map has an entry for
\* (s, d.day) of exactly 1 variable when s does no consultations and exactly 2
\* (shift, then consultation) when s does; if d is no working day the map has
\* no entry for (s, d.day).
C4_VariableCardinality ==
    pc = "done" =>
        \A c \in 1..Len(shiftConfs) :
            \A d \in 1..Len(calendarDict.dayConfigurations) :
                LET s == shiftConfs[c]
                    dc == calendarDict.dayConfigurations[d]
                    key == <<s.doctorId, dc.day>>
                IN  IF dc.isWorkingDay
                    THEN /\ key \in DOMAIN shiftVars
                         /\ Len(shiftVars[key]) = (IF s.doesConsultations THEN 2 ELSE 1)
                         /\ shiftVars[key][1].name
                                = VarName(s.doctorId, dc.day, SHIFT)
                         /\ s.doesConsultations =>
                                shiftVars[key][2].name
                                    = VarName(s.doctorId, dc.day, CONSULT)
                    ELSE key \notin DOMAIN shiftVars

\* the end of schedule with a doctor who does consultations, one who does not,
\* a working day and a day off
C4_Witness ==
    /\ pc = "done"
    /\ \E c1, c2 \in 1..Len(shiftConfs) :
           shiftConfs[c1].doesConsultations /\ ~ shiftConfs[c2].doesConsultations
    /\ \E d1, d2 \in 1..Len(dayConfs) :
           /\ dayConfs[d1].isWorkingDay
           /\ ~ dayConfs[d2].isWorkingDay
           /\ \A c \in 1..Len(shiftConfs) :
                  /\ <<shiftConfs[c].doctorId, dayConfs[d1].day>> \in DOMAIN shiftVars
                  /\ <<shiftConfs[c].doctorId, dayConfs[d2].day>>
                         \notin DOMAIN shiftVars

----------------------------------------------------------------------------
(* C5 *)

\* C5: the decision-variable identifiers are unique across a run: no two
\* variables of the model carry the same name, and every variable of the model
\* is the one the map holds under its (staffId, dayNumber), named from
\* (staffId, dayNumber, kind) alone.
C5_UniqueIdentifiers ==
    /\ \A i, j \in 1..Len(model) : i # j => model[i] # model[j]
    /\ \A i \in 1..Len(model) :
           \E key \in DOMAIN shiftVars : \E j \in 1..Len(shiftVars[key]) :
               /\ shiftVars[key][j] = [index |-> i, name |-> model[i]]
               /\ model[i] = VarName(key[1], key[2], IF j = 1 THEN SHIFT ELSE CONSULT)

\* the end of schedule with the variables of several doctors, one of them
\* doing consultations
C5_Witness ==
    /\ pc = "done"
    /\ Len(model) > Cardinality(DOMAIN shiftVars)
    /\ \E k1, k2 \in DOMAIN shiftVars : k1[1] # k2[1]

----------------------------------------------------------------------------
(* C8 *)

\* C8: an unrecognized weekday name in any of the four recurring lists is
\* detected before any per-day processing: when the KeyError is raised no day of
\* either resolved table has been computed and no decision variable allocated.
C8_UnknownWeekdayBeforeAnyDay ==
    (pc = "raised" /\ error.where = "WEEK_DAY") =>
        /\ shiftPreferences = <<>>
        /\ requests = <<>>
        /\ required = <<>>
        /\ model = <<>>
        /\ shiftVars = <<>>

====
